---- MODULE Spec2Model ----
(***************************************************************************)
(* XRTimeSeries (brenowitz-data-loading.ipynb): a torch Dataset that       *)
(* enumerates (time window, y, x) samples of an xarray dataset and slices  *)
(* every non-constant variable into a (time, z-or-1, 1, 1) float32 array.  *)
(* The notebook then iterates it with a DataLoader.                        *)
(*                                                                         *)
(* Python values are modelled as follows.  A numpy array is a record       *)
(* [shape, at, dtype] with `at` a function from 0-based index tuples to    *)
(* the element; a dict is a function over its keys; None is the integer    *)
(* NoneArg, which is outside the range of time_length arguments drawn.     *)
(***************************************************************************)
EXTENDS Integers, Sequences, FiniteSets, TLC

\* ---------------------------------------------------------------- bounds
MaxT == 4
MaxY == 2
MaxX == 2
MaxZ == 2
MaxBatch == 3

\* single precision keeps 24 significant bits (np.float32)
Float32Bits == 24

\* stands for Python's None as the time_length argument
NoneArg == 99

Min(a, b) == IF a < b THEN a ELSE b
Max(a, b) == IF a > b THEN a ELSE b

RECURSIVE Pow2(_)
Pow2(n) == IF n = 0 THEN 1 ELSE 2 * Pow2(n - 1)

\* ------------------------------------------------------ Python arithmetic
\* a % b of Python ints for b # 0: the result has the sign of b
PyMod(a, b) ==
    IF b > 0 THEN a % b
    ELSE LET m == (0 - a) % (0 - b) IN 0 - m

\* list(range(start, stop, step)) for step # 0
RECURSIVE PyRange(_, _, _)
PyRange(start, stop, step) ==
    IF (step > 0 /\ start >= stop) \/ (step < 0 /\ start <= stop)
    THEN << >>
    ELSE << start >> \o PyRange(start + step, stop, step)

\* [x + (y,) for y in pool]
RECURSIVE ExtendOne(_, _)
ExtendOne(x, pool) ==
    IF pool = << >> THEN << >>
    ELSE << Append(x, Head(pool)) >> \o ExtendOne(x, Tail(pool))

\* [x + (y,) for x in result for y in pool], the step of itertools.product
RECURSIVE Extend(_, _)
Extend(result, pool) ==
    IF result = << >> THEN << >>
    ELSE ExtendOne(Head(result), pool) \o Extend(Tail(result), pool)

\* product with the two inner loops exchanged: ys varies fastest
product_x_before_y(ts, ys, xs) ==
    LET txy == Extend(Extend(Extend(<< << >> >>, ts), xs), ys)
    IN  [ n \in 1..Len(txy) |-> << txy[n][1], txy[n][3], txy[n][2] >> ]

\* list(itertools.product(ts, ys, xs)): ts is the outer loop, xs the inner
product(ts, ys, xs) == Extend(Extend(Extend(<< << >> >>, ts), ys), xs)

\* ----------------------------------------------------------- numpy arrays
\* An array is [shape, flat, dtype]: flat holds the elements in C order.
RECURSIVE Size(_)
Size(shape) == IF shape = << >> THEN 1 ELSE Head(shape) * Size(Tail(shape))

\* the offset in flat of the element at the 0-based index tuple idx
RECURSIVE Ravel(_, _, _)
Ravel(shape, idx, acc) ==
    IF shape = << >> THEN acc
    ELSE Ravel(Tail(shape), Tail(idx), acc * Head(shape) + Head(idx))

\* the 0-based index tuple of the element at offset n of flat
RECURSIVE Unravel(_, _)
Unravel(shape, n) ==
    IF shape = << >> THEN << >>
    ELSE LET last == shape[Len(shape)]
         IN  Append(Unravel(SubSeq(shape, 1, Len(shape) - 1), n \div last), n % last)

\* arr[idx] for a full tuple of integers within the shape
At(arr, idx) == arr.flat[Ravel(arr.shape, idx, 0) + 1]

\* all index tuples of an array of this shape
IndexSet(shape) == { Unravel(shape, n) : n \in 0..(Size(shape) - 1) }

\* index items of a basic-indexing tuple
Slice(lo, hi) == [k |-> "slice", lo |-> lo, hi |-> hi]
SliceAll == [k |-> "all", lo |-> 0, hi |-> 0]
NewAxis == [k |-> "new", lo |-> 0, hi |-> 0]
IntIdx(i) == [k |-> "int", lo |-> i, hi |-> i]

\* slice.indices for step 1: negative bounds count from the end, then clip
ClipBound(v, n) == IF v < 0 THEN Max(v + n, 0) ELSE Min(v, n)

IndexError == [shape |-> << >>, flat |-> << >>, dtype |-> "IndexError"]
IsArray(a) == a.dtype # "IndexError"

\* what each item of the index tuple ix does on an array of shape sh, the
\* axes ix leaves out taken whole: lo is the first element read of the source
\* axis the item consumes, len the length of the axis it yields (-1: out of
\* bounds), out the position of that axis in the result (0 for an integer)
RECURSIVE IndexPlan(_, _, _)
IndexPlan(ix, sh, out) ==
    IF ix = << >>
    THEN [ j \in 1..Len(sh) |->
             [k |-> "all", lo |-> 0, len |-> sh[j], out |-> out + j] ]
    ELSE LET it == Head(ix)
         IN  IF it.k = "new"
             THEN << [k |-> "new", lo |-> 0, len |-> 1, out |-> out + 1] >>
                  \o IndexPlan(Tail(ix), sh, out + 1)
             ELSE LET n == Head(sh)
                      lo == CASE it.k = "slice" -> ClipBound(it.lo, n)
                              [] it.k = "int" -> IF it.lo < 0 THEN it.lo + n ELSE it.lo
                              [] OTHER -> 0
                      len == CASE it.k = "slice" -> Max(0, ClipBound(it.hi, n) - lo)
                               [] it.k = "int" -> IF lo >= 0 /\ lo < n THEN 1 ELSE 0 - 1
                               [] OTHER -> n
                  IN  IF it.k = "int"
                      THEN << [k |-> "int", lo |-> lo, len |-> len, out |-> 0] >>
                           \o IndexPlan(Tail(ix), Tail(sh), out)
                      ELSE << [k |-> it.k, lo |-> lo, len |-> len, out |-> out + 1] >>
                           \o IndexPlan(Tail(ix), Tail(sh), out + 1)

\* the source index tuple read for the result index tuple o
RECURSIVE SourceIndex(_, _)
SourceIndex(read, o) ==
    IF read = << >> THEN << >>
    ELSE LET e == Head(read)
         IN  << IF e.out = 0 THEN e.lo ELSE e.lo + o[e.out] >>
             \o SourceIndex(Tail(read), o)

\* the shape the kept items of a plan yield
RECURSIVE Lengths(_)
Lengths(kept) ==
    IF kept = << >> THEN << >> ELSE << Head(kept).len >> \o Lengths(Tail(kept))

NotNew(e) == e.k # "new"
NotInt(e) == e.k # "int"

\* arr[ix] for a tuple ix of slices, None and integers (basic indexing)
NpIndex(arr, ix) ==
    IF ~IsArray(arr) THEN IndexError
    ELSE IF Len(SelectSeq(ix, NotNew)) > Len(arr.shape)
    THEN IndexError
    ELSE LET plan == IndexPlan(ix, arr.shape, 0)
             kept == SelectSeq(plan, NotInt)
             read == SelectSeq(plan, NotNew)
             newShape == Lengths(kept)
         IN  IF \E p \in 1..Len(plan) : plan[p].len < 0
             THEN IndexError
             ELSE [shape |-> newShape,
                   flat |-> [ n \in 1..Size(newShape) |->
                                At(arr, SourceIndex(read, Unravel(newShape, n - 1))) ],
                   dtype |-> arr.dtype]

\* np.float32(v) for an integer v >= 0: round to 24 significant bits,
\* ties to even
Float32(v) ==
    LET lim == Pow2(Float32Bits)
        ulp == CHOOSE u \in { Pow2(e) : e \in 0..6 } :
                   /\ v \div u < lim
                   /\ (u = 1 \/ v \div (u \div 2) >= lim)
        q == v \div ulp
        r == v % ulp
    IN  IF v < lim THEN v
        ELSE IF 2 * r < ulp THEN q * ulp
        ELSE IF 2 * r > ulp THEN (q + 1) * ulp
        ELSE IF q % 2 = 0 THEN q * ulp ELSE (q + 1) * ulp

\* arr.astype(np.float32): a new array, every element rounded
astype_float32(arr) ==
    IF ~IsArray(arr) THEN IndexError
    ELSE [shape |-> arr.shape,
          flat |-> [ n \in 1..Len(arr.flat) |-> Float32(arr.flat[n]) ],
          dtype |-> "float32"]

\* --------------------------------------------------------------- dataset
AllDims == << "time", "z", "y", "x" >>

\* the dims tuple that keeps the dimensions numbered in S, in stored order
SubDims(S) ==
    LET F[k \in 0..4] ==
            IF k = 0 THEN << >>
            ELSE IF k \in S THEN Append(F[k - 1], AllDims[k]) ELSE F[k - 1]
    IN  F[4]

DimChoices == { SubDims(S) : S \in SUBSET (1..4) }

dims_3d == << "time", "z", "y", "x" >>
dims_2d == << "time", "y", "x" >>

\* the element stored at index tuple o of variable key: distinct cells hold
\* distinct numbers, and those of "b" need more than 24 significant bits
CellValue(key, d, o) ==
    LET weight(dim) == CASE dim = "time" -> 1000
                         [] dim = "z" -> 100
                         [] dim = "y" -> 10
                         [] OTHER -> 1
        base == CASE key = "a" -> 0
                  [] key = "b" -> Pow2(Float32Bits)
                  [] OTHER -> 5
        F[j \in 0..Len(d)] == IF j = 0 THEN base
                              ELSE F[j - 1] + weight(d[j]) * o[j]
    IN  F[Len(d)]

\* data[key].values
DataValues(ds, key) ==
    LET d == ds.dims[key]
        shape == [ j \in 1..Len(d) |-> ds.sizes[d[j]] ]
    IN  [shape |-> shape,
         flat |-> [ n \in 1..Size(shape) |-> CellValue(key, d, Unravel(shape, n - 1)) ],
         dtype |-> "float64"]

\* get_xarray_dataset, generalised: a 3-D "a", a 2-D "b" and optionally a
\* third variable "c" over any of the dimensions; the time extent is any
\* number up to MaxT, the other extents are 1 or their largest value
Datasets ==
    { [sizes |-> [time |-> T, z |-> Z, y |-> Y, x |-> X], dims |-> dm] :
        T \in 0..MaxT, Z \in {1, MaxZ}, Y \in {1, MaxY}, X \in {1, MaxX},
        dm \in { [a |-> dims_3d, b |-> dims_2d] }
               \cup { [a |-> dims_3d, b |-> dims_2d, c |-> dc] : dc \in DimChoices } }

\* the time_length arguments tried: None and the integers around the extent
TimeArgs == { NoneArg } \cup ((0 - (MaxT + 1))..(MaxT + 1))

\* ------------------------------------------------------------------ state
VARIABLES
    data,       \* the xarray dataset handed to the constructor
    ctor_arg,   \* the time_length argument of the constructor call
    status,     \* "none" | "ok" | "AssertionError" | "ValueError"
    self,       \* the attributes of the XRTimeSeries object
    ret,        \* the last call made on the object and what it gave
    loader,     \* the DataLoader iteration in progress
    batch       \* the batch the DataLoader yielded last

vars == << data, ctor_arg, status, self, ret, loader, batch >>

NoSelf ==
    [attrs |-> {}, time_length |-> 0, numpy_data |-> << >>, data_vars |-> {},
     dims |-> << >>, constants |-> {}, indices |-> << >>]

NoCall == [op |-> "none", arg |-> 0, err |-> "", len |-> 0, sample |-> << >>]

IdleLoader ==
    [pc |-> "idle", batch_size |-> 0, n |-> 0, pos |-> 0,
     fetched |-> << >>, sizes |-> << >>]

\* ------------------------------------------------------------ XRTimeSeries
\* setup_indices with the time axis walked in steps of 1
setup_indices_stride1(ds, time_length) ==
    IF time_length = 0 THEN [err |-> "ValueError", indices |-> << >>]
    ELSE IF PyMod(ds.sizes["time"], time_length) # 0
    THEN [err |-> "AssertionError", indices |-> << >>]
    ELSE [err |-> "",
          indices |-> product(PyRange(0, ds.sizes["time"], 1),
                              PyRange(0, ds.sizes["y"], 1),
                              PyRange(0, ds.sizes["x"], 1))]

\* setup_indices: the indices, or the exception raised before they are set
setup_indices(ds, time_length) ==
    LET len_x == ds.sizes["x"]
        len_y == ds.sizes["y"]
        len_t == ds.sizes["time"]
    IN  IF time_length = 0
        THEN [err |-> "ValueError", indices |-> << >>]
        ELSE IF PyMod(len_t, time_length) # 0
        THEN [err |-> "AssertionError", indices |-> << >>]
        ELSE [err |-> "",
              indices |-> product(PyRange(0, len_t, time_length),
                                  PyRange(0, len_y, 1),
                                  PyRange(0, len_x, 1))]

\* self.time_length = time_length or len(data.time)
time_length_or_default(ds, arg) ==
    IF arg = NoneArg \/ arg = 0 THEN ds.sizes["time"] ELSE arg

\* self.constants taken as the variables without a time dimension
constants_of_no_time(ds) ==
    { key \in DOMAIN ds.dims :
        Cardinality({"time"} \cap { ds.dims[key][j] : j \in 1..Len(ds.dims[key]) }) = 0 }

\* self.constants
constants_of(ds) ==
    { key \in DOMAIN ds.dims :
        Cardinality({"x", "y", "time"} \cap { ds.dims[key][j] : j \in 1..Len(ds.dims[key]) }) = 0 }

\* XRTimeSeries.__init__: the exception ("" for none) and the attributes
\* assigned by the time it returns or raises
XRTimeSeries_init(ds, arg) ==
    LET tl == time_length_or_default(ds, arg)
        ix == setup_indices(ds, tl)
        base == [attrs |-> {"time_length", "data", "numpy_data", "data_vars",
                            "dims", "constants"},
                 time_length |-> tl,
                 numpy_data |-> [ key \in DOMAIN ds.dims |-> DataValues(ds, key) ],
                 data_vars |-> DOMAIN ds.dims,
                 dims |-> ds.dims,
                 constants |-> constants_of(ds),
                 indices |-> << >>]
    IN  IF ix.err # ""
        THEN [err |-> ix.err, self |-> base]
        ELSE [err |-> "",
              self |-> [base EXCEPT !.attrs = @ \cup {"indices"},
                                    !.indices = ix.indices]]

\* __len__ one short
XRTimeSeries_len_minus_one(obj) == Len(obj.indices) - 1

\* XRTimeSeries.__len__
XRTimeSeries_len(obj) == Len(obj.indices)

\* list indexing that rejects every negative index
list_getitem_nonneg(lst, i) ==
    IF i >= Len(lst) \/ i < 0 THEN [err |-> "IndexError", val |-> << >>]
    ELSE [err |-> "", val |-> lst[i + 1]]

\* self.indices[i] of a Python list: -len <= i < len, negative from the end
list_getitem(lst, i) ==
    LET n == Len(lst)
    IN  IF i >= n \/ i < 0 - n THEN [err |-> "IndexError", val |-> << >>]
        ELSE [err |-> "", val |-> lst[(IF i < 0 THEN i + n ELSE i) + 1]]

\* 'z' in self.dims[key]
HasDim(d, name) == \E j \in 1..Len(d) : d[j] = name

\* the loop body with a single trailing np.newaxis
sample_of_one_newaxis(obj, key, t, y, x) ==
    astype_float32(NpIndex(
        NpIndex(obj.numpy_data[key],
                IF HasDim(obj.dims[key], "z")
                THEN << Slice(t, t + obj.time_length), SliceAll, IntIdx(y), IntIdx(x) >>
                ELSE << Slice(t, t + obj.time_length), NewAxis, IntIdx(y), IntIdx(x) >>),
        << SliceAll, SliceAll, NewAxis >>))

\* the loop body with the level axis moved behind the first unit axis
sample_of_axes_swapped(obj, key, t, y, x) ==
    astype_float32(NpIndex(
        NpIndex(obj.numpy_data[key],
                IF HasDim(obj.dims[key], "z")
                THEN << Slice(t, t + obj.time_length), SliceAll, IntIdx(y), IntIdx(x) >>
                ELSE << Slice(t, t + obj.time_length), NewAxis, IntIdx(y), IntIdx(x) >>),
        << SliceAll, NewAxis, SliceAll, NewAxis >>))

\* the loop body with y and x exchanged in the index
sample_of_xy_swapped(obj, key, t, y, x) ==
    astype_float32(NpIndex(
        NpIndex(obj.numpy_data[key],
                IF HasDim(obj.dims[key], "z")
                THEN << Slice(t, t + obj.time_length), SliceAll, IntIdx(x), IntIdx(y) >>
                ELSE << Slice(t, t + obj.time_length), NewAxis, IntIdx(x), IntIdx(y) >>),
        << SliceAll, SliceAll, NewAxis, NewAxis >>))

\* the body of the loop of __getitem__ for one key
sample_of(obj, key, t, y, x) ==
    LET data_array == obj.numpy_data[key]
        this_array_index ==
            IF HasDim(obj.dims[key], "z")
            THEN << Slice(t, t + obj.time_length), SliceAll, IntIdx(y), IntIdx(x) >>
            ELSE << Slice(t, t + obj.time_length), NewAxis, IntIdx(y), IntIdx(x) >>
        sample == NpIndex(NpIndex(data_array, this_array_index),
                          << SliceAll, SliceAll, NewAxis, NewAxis >>)
    IN  astype_float32(sample)

\* the for loop of __getitem__ over the keys still to visit: the dict built,
\* constants skipped
RECURSIVE output_tensors_of(_, _, _)
output_tensors_of(obj, keys, tyx) ==
    IF keys = {} THEN << >>
    ELSE LET key == CHOOSE k \in keys : TRUE
             rest == output_tensors_of(obj, keys \ {key}, tyx)
         IN  IF key \in obj.constants THEN rest
             ELSE (key :> sample_of(obj, key, tyx[1], tyx[2], tyx[3])) @@ rest

\* XRTimeSeries.__getitem__: the dict returned, or the exception raised
XRTimeSeries_getitem(obj, i) ==
    LET tyx == list_getitem(obj.indices, i)
    IN  IF tyx.err # "" THEN [err |-> "IndexError", sample |-> << >>]
        ELSE LET output_tensors == output_tensors_of(obj, obj.data_vars, tyx.val)
             IN  IF \E key \in DOMAIN output_tensors : ~IsArray(output_tensors[key])
                 THEN [err |-> "IndexError", sample |-> << >>]
                 ELSE [err |-> "", sample |-> output_tensors]

\* ---------------------------------------------------------------- actions
Init ==
    /\ data \in Datasets
    /\ ctor_arg = NoneArg
    /\ status = "none"
    /\ self = NoSelf
    /\ ret = NoCall
    /\ loader = IdleLoader
    /\ batch = << >>

\* torch_dataset = XRTimeSeries(ds, time_length=arg)
Construct(arg) ==
    /\ status = "none"
    /\ \E r \in { XRTimeSeries_init(data, arg) } :
           /\ status' = IF r.err = "" THEN "ok" ELSE r.err
           /\ self' = r.self
    /\ ctor_arg' = arg
    /\ UNCHANGED << data, ret, loader, batch >>

\* len(torch_dataset)
CallLen ==
    /\ status = "ok"
    /\ loader.pc = "idle"
    /\ ret.op = "none"
    /\ ret' = [NoCall EXCEPT !.op = "len", !.len = XRTimeSeries_len(self)]
    /\ UNCHANGED << data, ctor_arg, status, self, loader, batch >>

\* torch_dataset[i] that drops the entry it read from self.indices
CallGetItem_consuming(i) ==
    /\ status = "ok"
    /\ loader.pc = "idle"
    /\ ret.op = "none"
    /\ \E r \in { XRTimeSeries_getitem(self, i) } :
           ret' = [NoCall EXCEPT !.op = "getitem", !.arg = i,
                                 !.err = r.err, !.sample = r.sample]
    /\ self' = [self EXCEPT !.indices =
                    IF i >= 0 /\ i < Len(@)
                    THEN SubSeq(@, 1, i) \o SubSeq(@, i + 2, Len(@))
                    ELSE @]
    /\ UNCHANGED << data, ctor_arg, status, loader, batch >>

\* torch_dataset[i]
CallGetItem(i) ==
    /\ status = "ok"
    /\ loader.pc = "idle"
    /\ ret.op = "none"
    /\ \E r \in { XRTimeSeries_getitem(self, i) } :
           ret' = [NoCall EXCEPT !.op = "getitem", !.arg = i,
                                 !.err = r.err, !.sample = r.sample]
    /\ UNCHANGED << data, ctor_arg, status, self, loader, batch >>

\* -------------------------------------------------------------- DataLoader
\* torch.stack: a new leading axis over arrays of one shape
stack(arrays) ==
    IF \E j \in 1..Len(arrays) : arrays[j].shape # arrays[1].shape
    THEN IndexError
    ELSE LET shape == << Len(arrays) >> \o arrays[1].shape
             each == Size(arrays[1].shape)
         IN  [shape |-> shape,
              flat |-> [ n \in 1..(Len(arrays) * each) |->
                           arrays[((n - 1) \div each) + 1].flat[((n - 1) % each) + 1] ],
              dtype |-> arrays[1].dtype]

\* default_collate of a list of dicts: one stacked array per key
collate(samples) ==
    [ key \in DOMAIN samples[1] |->
        stack([ j \in 1..Len(samples) |-> samples[j][key] ]) ]

\* the indices of the next batch of the sequential batch sampler
next_indices(ld) ==
    [ j \in 1..(Min(ld.pos + ld.batch_size, ld.n) - ld.pos) |-> ld.pos + j - 1 ]

\* [dataset[i] for i in idx]: the samples fetched, up to the first that raises
RECURSIVE fetch(_, _)
fetch(obj, idx) ==
    IF idx = << >> THEN << >>
    ELSE LET r == XRTimeSeries_getitem(obj, Head(idx))
         IN  IF r.err # "" THEN << r >> ELSE << r >> \o fetch(obj, Tail(idx))

\* iter(DataLoader(torch_dataset, batch_size=B)): the sampler asks the length
LoaderStart(B) ==
    /\ status = "ok"
    /\ loader.pc = "idle"
    /\ ret.op = "none"
    /\ loader' = [IdleLoader EXCEPT !.pc = "iter", !.batch_size = B,
                                    !.n = XRTimeSeries_len(self)]
    /\ ret' = [NoCall EXCEPT !.op = "len", !.len = XRTimeSeries_len(self)]
    /\ batch' = << >>
    /\ UNCHANGED << data, ctor_arg, status, self >>

\* the samples of the results fetched
samples_of(got) == [ j \in 1..Len(got) |-> got[j].sample ]

\* the call on the dataset that fetched the result r for index i
getitem_call(i, r) ==
    [NoCall EXCEPT !.op = "getitem", !.arg = i, !.err = r.err, !.sample = r.sample]

\* the end of a step of the loader ld that fetched got for the indices idx
\* and collated it into stacked
loader_yield(ld, idx, got, stacked) ==
    IF got[Len(got)].err # "" \/ \E key \in DOMAIN stacked : ~IsArray(stacked[key])
    THEN [loader |-> [ld EXCEPT !.pc = "error"], batch |-> << >>,
          ret |-> getitem_call(idx[Len(got)], got[Len(got)])]
    ELSE [loader |-> [ld EXCEPT !.pos = @ + Len(idx),
                                !.fetched = @ \o idx,
                                !.sizes = Append(@, Len(idx))],
          batch |-> stacked,
          ret |-> getitem_call(idx[Len(got)], got[Len(got)])]

\* the step of the loader ld that fetched got for the indices idx
loader_collate(ld, idx, got) ==
    loader_yield(ld, idx, got, collate(samples_of(got)))

\* the step of the loader ld whose next batch has the indices idx
loader_fetch(ld, obj, idx, last_call, last_batch) ==
    IF idx = << >>
    THEN [loader |-> [ld EXCEPT !.pc = "done"], batch |-> last_batch,
          ret |-> last_call]
    ELSE loader_collate(ld, idx, fetch(obj, idx))

\* next(iterator) of a loader ld over the dataset obj: fetch the samples of
\* the next batch and collate them; gives the loader, the batch yielded and
\* the last call made on the dataset
loader_next(ld, obj, last_call, last_batch) ==
    loader_fetch(ld, obj, next_indices(ld), last_call, last_batch)

LoaderNext ==
    /\ loader.pc = "iter"
    /\ \E r \in { loader_next(loader, self, ret, batch) } :
           /\ loader' = r.loader
           /\ batch' = r.batch
           /\ ret' = r.ret
    /\ UNCHANGED << data, ctor_arg, status, self >>

\* the for loop over the loader is left: the iterator is dropped
LoaderDrop ==
    /\ loader.pc \in {"done", "error"}
    /\ loader' = IdleLoader
    /\ batch' = << >>
    /\ ret' = NoCall
    /\ UNCHANGED << data, ctor_arg, status, self >>

\* the cell that made the call ends: its value is displayed and dropped
CellEnd ==
    /\ loader.pc = "idle"
    /\ ret.op # "none"
    /\ ret' = NoCall
    /\ UNCHANGED << data, ctor_arg, status, self, loader, batch >>

Next ==
    \/ \E arg \in TimeArgs : Construct(arg)
    \/ CallLen
    \/ \E i \in (0 - (Len(self.indices) + 2))..(Len(self.indices) + 1) : CallGetItem(i)
    \/ \E B \in 1..MaxBatch : LoaderStart(B)
    \/ LoaderNext
    \/ LoaderDrop
    \/ CellEnd

Spec == Init /\ [][Next]_vars

\* ----------------------------------------------------------------- claims
T == data.sizes["time"]
Y == data.sizes["y"]
X == data.sizes["x"]
Z == data.sizes["z"]
N == Len(self.indices)

Abs(v) == IF v < 0 THEN 0 - v ELSE v

\* d evenly divides n, and the quotient n / d
Divides(d, n) == d # 0 /\ n % Abs(d) = 0
Quotient(n, d) == IF d > 0 THEN n \div d ELSE 0 - (n \div (0 - d))

Constructed == status # "none"
PassedLength == Constructed /\ ctor_arg # NoneArg
Returned == ret.op = "getitem" /\ ret.err = ""
ValidIndex == ret.op = "getitem" /\ ret.arg >= 0 /\ ret.arg < N

\* C1 as stated: for every time_length passed to the constructor that evenly
\* divides T, construction succeeds and __len__ returns (T / time_length) * Y * X.
C1_Original ==
    (PassedLength /\ Divides(ctor_arg, T)) =>
        /\ status = "ok"
        /\ (ret.op = "len" => ret.len = Quotient(T, ctor_arg) * Y * X)

\* C1 amended: for every positive time_length passed to the constructor that
\* evenly divides T, construction succeeds and __len__ returns
\* (T / time_length) * Y * X.
C1_Amended ==
    (PassedLength /\ ctor_arg > 0 /\ Divides(ctor_arg, T)) =>
        /\ status = "ok"
        /\ (ret.op = "len" => ret.len = (T \div ctor_arg) * Y * X)

C1_Witness ==
    /\ PassedLength /\ ctor_arg > 1 /\ Divides(ctor_arg, T) /\ T \div ctor_arg > 1
    /\ Y > 1 /\ X > 1
    /\ ret.op = "len" /\ ret.len = (T \div ctor_arg) * Y * X

\* C2 as stated: constructing with any time_length that does not evenly divide
\* the time extent fails, and no sample index is ever built.
C2_Original ==
    (PassedLength /\ ~Divides(ctor_arg, T)) =>
        /\ status \in {"AssertionError", "ValueError"}
        /\ "indices" \notin self.attrs
        /\ self.indices = << >>

\* a non-dividing time_length strictly between 1 and T aborts construction
C2_Witness ==
    /\ PassedLength /\ ~Divides(ctor_arg, T) /\ ctor_arg > 1 /\ ctor_arg < T
    /\ status = "AssertionError"

\* C3 as stated: __getitem__ with an index outside [0, len) fails with an
\* out-of-bounds error; only indices with 0 <= i < len yield a result.
C3_Original ==
    ret.op = "getitem" =>
        /\ (ret.err = "" => (ret.arg >= 0 /\ ret.arg < N))
        /\ (~(ret.arg >= 0 /\ ret.arg < N) => ret.err = "IndexError")

\* C3 amended: __getitem__ with an index outside [-len, len) fails with
\* IndexError and returns no sample; only indices with -len <= i < len yield a
\* result, and an index -len <= i < 0 gives what index len + i gives.
C3_Amended ==
    ret.op = "getitem" =>
        /\ (ret.err = "" => (ret.arg >= 0 - N /\ ret.arg < N))
        /\ ((ret.arg < 0 - N \/ ret.arg >= N) =>
                (ret.err = "IndexError" /\ ret.sample = << >>))
        /\ ((ret.arg >= 0 - N /\ ret.arg < 0) =>
                LET r == XRTimeSeries_getitem(self, ret.arg + N)
                IN  ret.err = r.err /\ ret.sample = r.sample)

C3_Witness == Returned /\ ret.arg < 0 - 1 /\ N > 2

\* the variables that are not constants: some dimension among time, x, y
DimSet(key) == { data.dims[key][j] : j \in 1..Len(data.dims[key]) }
NonConstant == { key \in DOMAIN data.dims : DimSet(key) \cap {"time", "x", "y"} # {} }

\* every non-constant variable declares time, y and x (z or not)
WellFormed == \A key \in NonConstant : {"time", "y", "x"} \subseteq DimSet(key)

\* C4 as stated: for every valid index and every non-constant variable,
\* whatever dimensions it declares, the array returned has exactly 4 axes,
\* the first of length time_length and the last two of length 1.
C4_Original ==
    ValidIndex =>
        /\ ret.err = ""
        /\ \A key \in NonConstant :
              /\ Len(ret.sample[key].shape) = 4
              /\ ret.sample[key].shape[1] = self.time_length
              /\ ret.sample[key].shape[3] = 1
              /\ ret.sample[key].shape[4] = 1

\* C4 amended: for every valid index of a dataset whose non-constant variables
\* all declare time, y and x (with or without z), the array returned for every
\* non-constant variable has the shape (time_length, Z or 1, 1, 1); if some
\* non-constant variable omits time, y or x, __getitem__ raises IndexError.
C4_Amended ==
    ValidIndex =>
        IF WellFormed
        THEN /\ ret.err = ""
             /\ \A key \in NonConstant :
                   ret.sample[key].shape =
                       << self.time_length,
                          IF "z" \in DimSet(key) THEN Z ELSE 1, 1, 1 >>
        ELSE ret.err = "IndexError" /\ ret.sample = << >>

C4_Witness ==
    /\ ValidIndex /\ Returned /\ WellFormed
    /\ "c" \in NonConstant /\ self.time_length > 1 /\ Z > 1 /\ ret.arg > 0

\* C5: for every valid index, a variable with dims (time, y, x) comes back
\* with shape (time_length, 1, 1, 1) and one with dims (time, z, y, x) with
\* shape (time_length, Z, 1, 1): the shapes differ in the second axis only.
C5_Shapes ==
    ValidIndex =>
        /\ (WellFormed => Returned)
        /\ (Returned =>
              \A k2 \in DOMAIN ret.sample, k3 \in DOMAIN ret.sample :
                  (data.dims[k2] = dims_2d /\ data.dims[k3] = dims_3d) =>
                      /\ ret.sample[k2].shape = << self.time_length, 1, 1, 1 >>
                      /\ ret.sample[k3].shape = << self.time_length, Z, 1, 1 >>
                      /\ \A ax \in {1, 3, 4} :
                            ret.sample[k2].shape[ax] = ret.sample[k3].shape[ax])

C5_Witness ==
    /\ ValidIndex /\ Returned /\ ret.arg > 0 /\ Z > 1 /\ self.time_length > 1
    /\ ret.sample["a"].shape # ret.sample["b"].shape

\* C6: the constants are the variables whose dimensions are disjoint from
\* {time, x, y}, fixed at construction; the keys of every dict __getitem__
\* returns are exactly the other variables.
C6_Keys ==
    /\ (Constructed =>
          (/\ self.data_vars = DOMAIN data.dims
           /\ self.constants = DOMAIN data.dims \ NonConstant))
    /\ (Returned =>
          (/\ DOMAIN ret.sample = NonConstant
           /\ DOMAIN ret.sample \cap self.constants = {}))

C6_Witness ==
    /\ Returned /\ ValidIndex
    /\ "c" \in self.constants /\ "c" \notin DOMAIN ret.sample
    /\ DOMAIN ret.sample = {"a", "b"}

\* C7: after construction entry i (from 0) of the indices is
\* ((i div (Y*X)) * time_length, (i div X) mod Y, i mod X); the triples are
\* pairwise distinct and within 0 <= t, t + time_length <= T, 0 <= y < Y,
\* 0 <= x < X.
C7_Indices ==
    status = "ok" =>
        /\ \A n \in 1..N :
              /\ self.indices[n] = << ((n - 1) \div (Y * X)) * self.time_length,
                                      ((n - 1) \div X) % Y,
                                      (n - 1) % X >>
              /\ self.indices[n][1] >= 0
              /\ self.indices[n][1] + self.time_length <= T
              /\ self.indices[n][2] >= 0 /\ self.indices[n][2] < Y
              /\ self.indices[n][3] >= 0 /\ self.indices[n][3] < X
        /\ \A m, n \in 1..N : (self.indices[m] = self.indices[n] => m = n)

C7_Witness ==
    /\ status = "ok" /\ self.time_length > 1 /\ Y > 1 /\ X > 1
    /\ N >= 2 * Y * X
    /\ self.indices[N] = << T - self.time_length, Y - 1, X - 1 >>

\* C8: the loader fetches the indices 0..N-1 once each in increasing order,
\* in consecutive batches: every batch but the last holds batch_size samples,
\* the last N mod batch_size when that is not zero; each array of a batch has
\* the shape (batch size,) followed by the shape of one sample.
C8_Batches ==
    loader.pc # "idle" =>
        LET B == loader.batch_size
            k == Len(loader.sizes)
        IN  /\ loader.n = N
            /\ loader.pos <= N
            /\ loader.fetched = [ j \in 1..loader.pos |-> j - 1 ]
            /\ \A j \in 1..k :
                  /\ loader.sizes[j] >= 1 /\ loader.sizes[j] <= B
                  /\ (j < k => loader.sizes[j] = B)
            /\ (k = 0 => loader.pos = 0)
            /\ (k > 0 => loader.pos = (k - 1) * B + loader.sizes[k])
            /\ (loader.pc = "done" =>
                  (/\ loader.pos = N
                   /\ k = (N + B - 1) \div B
                   /\ (N % B # 0 => loader.sizes[k] = N % B)))
            /\ ((loader.pc # "error" /\ k > 0) =>
                  (/\ Returned /\ ret.arg = loader.pos - 1
                   /\ DOMAIN batch = DOMAIN ret.sample
                   /\ \A key \in DOMAIN batch :
                         batch[key].shape =
                             << loader.sizes[k] >> \o ret.sample[key].shape))
            /\ (loader.pc = "error" => ~WellFormed)

C8_Witness ==
    /\ loader.pc = "done" /\ loader.sizes = << 3, 3, 2 >>
    /\ loader.fetched = << 0, 1, 2, 3, 4, 5, 6, 7 >>
    /\ batch["b"].shape = << 2, self.time_length, 1, 1, 1 >>

\* the window of the sample that index i (from 0) addresses
Triple(i) == self.indices[i + 1]
Source(key) == DataValues(data, key)

\* every (time step, y, x) cell lies in the window of exactly one sample
EachCellOnce ==
    \A ts \in 0..(T - 1), y \in 0..(Y - 1), x \in 0..(X - 1) :
        Cardinality({ n \in 1..N :
                        /\ self.indices[n][2] = y /\ self.indices[n][3] = x
                        /\ self.indices[n][1] <= ts
                        /\ ts < self.indices[n][1] + self.time_length }) = 1

\* C9 as stated: out[k, j, 0, 0] == data[t+k, j, y, x] for a variable with a
\* level axis and out[k, 0, 0, 0] == data[t+k, y, x] for one without; every
\* cell of the source lies in the window of exactly one sample.
C9_Original ==
    /\ ((Returned /\ ValidIndex) =>
          \A key \in DOMAIN ret.sample, k \in 0..(self.time_length - 1) :
              LET t == Triple(ret.arg)[1]
                  y == Triple(ret.arg)[2]
                  x == Triple(ret.arg)[3]
              IN  IF "z" \in DimSet(key)
                  THEN \A j \in 0..(Z - 1) :
                          At(ret.sample[key], << k, j, 0, 0 >>)
                              = At(Source(key), << t + k, j, y, x >>)
                  ELSE At(ret.sample[key], << k, 0, 0, 0 >>)
                          = At(Source(key), << t + k, y, x >>))
    /\ (status = "ok" => EachCellOnce)

\* C9 amended: out[k, j, 0, 0] is data[t+k, j, y, x] rounded to single
\* precision, and out[k, 0, 0, 0] is data[t+k, y, x] rounded to single
\* precision; when time_length is positive every cell of the source lies in
\* the window of exactly one sample.
C9_Amended ==
    /\ ((Returned /\ ValidIndex) =>
          \A key \in DOMAIN ret.sample, k \in 0..(self.time_length - 1) :
              LET t == Triple(ret.arg)[1]
                  y == Triple(ret.arg)[2]
                  x == Triple(ret.arg)[3]
              IN  IF "z" \in DimSet(key)
                  THEN \A j \in 0..(Z - 1) :
                          At(ret.sample[key], << k, j, 0, 0 >>)
                              = Float32(At(Source(key), << t + k, j, y, x >>))
                  ELSE At(ret.sample[key], << k, 0, 0, 0 >>)
                          = Float32(At(Source(key), << t + k, y, x >>)))
    /\ ((status = "ok" /\ self.time_length > 0) => EachCellOnce)

C9_Witness ==
    /\ Returned /\ ValidIndex /\ self.time_length > 1 /\ Z > 1
    /\ Triple(ret.arg)[1] > 0 /\ Triple(ret.arg)[2] > 0 /\ Triple(ret.arg)[3] > 0
    /\ At(ret.sample["b"], << 1, 0, 0, 0 >>)
           # At(Source("b"), << Triple(ret.arg)[1] + 1, Triple(ret.arg)[2],
                               Triple(ret.arg)[3] >>)
    /\ At(ret.sample["a"], << 1, 1, 0, 0 >>)
           = At(Source("a"), << Triple(ret.arg)[1] + 1, 1, Triple(ret.arg)[2],
                               Triple(ret.arg)[3] >>)

\* the object a fresh construction from the same dataset and argument gives
Fresh == XRTimeSeries_init(data, ctor_arg).self

\* C10: once constructed, no call changes time_length, the dims mapping, the
\* constants, the indices or the backing arrays; so __len__ and
\* __getitem__(i) give what they give on the freshly constructed object,
\* whatever calls came before.
C10_ReadOnly ==
    /\ [][Constructed =>
            (self' = self /\ data' = data /\ status' = status
             /\ ctor_arg' = ctor_arg)]_vars
    /\ [](status = "ok" =>
            (/\ (ret.op = "len" => ret.len = XRTimeSeries_len(Fresh))
             /\ (ret.op = "getitem" =>
                   LET r == XRTimeSeries_getitem(Fresh, ret.arg)
                   IN  ret.err = r.err /\ ret.sample = r.sample)))

C10_Witness ==
    /\ loader.pc = "iter" /\ Len(loader.fetched) > 3 /\ Len(loader.sizes) > 1
    /\ Returned /\ self = Fresh

====
